---------------------------- MODULE Spec2Model ----------------------------
(***************************************************************************)
(* Model of parts of android-file-transfer-linux:                          *)
(*   - mtp::JoinedObjectInputStream / JoinedObjectOutputStream             *)
(*     (src/mtp/ptp/JoinedObjectStream.h)                                  *)
(*   - cli::Session path resolution and recursive transfer                 *)
(*     (src/cli/Session.cpp)                                               *)
(***************************************************************************)
EXTENDS Integers, Sequences, FiniteSets, TLC

(***************************************************************************)
(* Bounds of the model.                                                    *)
(***************************************************************************)
\* longest content of an underlying input stream / largest output capacity
MaxLen == 3
\* largest size passed to one Read or Write call
MaxReq == 3

\* byte values carried by the streams
Bytes == {1, 2}

Min(x, y) == IF x < y THEN x ELSE y

RECURSIVE SeqsUpTo(_, _)
SeqsUpTo(S, n) ==
    IF n = 0 THEN {<< >>}
    ELSE LET shorter == SeqsUpTo(S, n - 1)
         IN  shorter \cup {Append(s, x) : s \in {t \in shorter : Len(t) = n - 1}, x \in S}

(***************************************************************************)
(* Joined streams.  One joined stream object exists per behaviour; jDir    *)
(* tells whether it is a JoinedObjectInputStream or an output one.         *)
(***************************************************************************)
VARIABLES
    jDir,        \* "in" | "out": which class was constructed
    jA, jB,      \* contents of the two underlying input streams
    jPos1, jPos2,\* read positions of the underlying input streams
    jCap1, jCap2,\* capacities of the two underlying output streams
    jOut1, jOut2,\* bytes the underlying output streams have accepted
    jSize1, jSize2, \* _stream1Size, _stream2Size
    jExhausted,  \* _stream1Exhausted
    jCancelled,  \* CancellableStream's flag
    jHooks,      \* number of OnStream1Exhausted() invocations
    jDelivered,  \* all bytes returned by Read / reported written by Write
    jLast        \* the last Read/Write call: arguments, entry state, outcome

jvars == <<jDir, jA, jB, jPos1, jPos2, jCap1, jCap2, jOut1, jOut2,
           jSize1, jSize2, jExhausted, jCancelled, jHooks, jDelivered, jLast>>

VARIABLES
    dParent,     \* device: handle -> ParentObject property (Device for root objects)
    dName,       \* device: handle -> ObjectFilename property
    dFormat,     \* device: handle -> ObjectFormat property ("Association" | "Undefined")
    sCd,         \* Session::_cd
    sCs,         \* Session::_cs
    sPc,         \* "idle": reading the next command; "resolved": a command ran
    rCall        \* the command that ran: path, entry state, outcome, device operations

svars == <<dParent, dName, dFormat, sCd, sCs, sPc, rCall>>

VARIABLES
    lFs,         \* the local file system: path -> [dir, entries in readdir order]
    tPhase,      \* "idle" | "running" | "done" | "failed": the put/get command
    tCmd,        \* "put" | "get" | "none"
    tStack,      \* the active directory loops of the recursion, innermost last
    tLog,        \* device and local file operations issued by the command
    tAttempted,  \* the sources on which Put / Get was entered, in order
    tErr,        \* the exception that left the command, if any
    tDir,        \* the last MakeOrResolveDirectory call and its outcome
    tFile,       \* the last Put of a regular file whose input stream was opened
    sInteractive \* Session::_interactive

tvars == <<lFs, tPhase, tCmd, tStack, tLog, tAttempted, tErr, tDir, tFile, sInteractive>>

VARIABLES
    pPc,         \* "idle" | "testing" | "done" | "failed": test-property-list
    pParent,     \* the object TestObjectPropertyList resolved its path to
    pOriginal,   \* the set built from GetObjectHandles (originalObjectList)
    pIdx,        \* how many of the six GetObjectPropertyList calls were made
    pLast        \* the last GetObjectPropertyList call: reply and what it printed

pvars == <<pPc, pParent, pOriginal, pIdx, pLast>>

VARIABLES
    iPc,         \* "loop": InteractiveInput reads lines; "returned": it is over
    iShowPrompt, \* Session::_showPrompt
    iLines,      \* the lines the input holds when InteractiveInput starts
    iInput,      \* the lines not yet read
    iRunning,    \* Session::_running
    iErr,        \* what error(...) has written
    iOut,        \* what print(...) has written after the loop
    iLast        \* the last round of the loop: the line, its outcome, the entry state

ivars == <<iPc, iShowPrompt, iLines, iInput, iRunning, iErr, iOut, iLast>>

vars == <<jvars, svars, tvars, pvars, ivars>>

NoCall == [kind |-> "none"]

\* IObjectInputStream::Read of an underlying stream holding `data`, `pos`
\* bytes already consumed: the next min(size, remaining) bytes.
StreamRead(data, pos, size) ==
    SubSeq(data, pos + 1, Min(pos + size, Len(data)))

\* IObjectOutputStream::Write of an underlying stream of capacity `cap`
\* that already holds `have`: the accepted prefix of `data`.
StreamWrite(cap, have, data) ==
    SubSeq(data, 1, Min(Len(data), cap - Len(have)))

\* CancellableStream::CheckCancelled: throws when the flag is set.
CheckCancelled(cancelled) == cancelled

\* the CheckCancelled() call that opens Read: TRUE when the call throws
ReadThrows == CheckCancelled(jCancelled)
\* the CheckCancelled() call that opens Write: TRUE when the call throws
WriteThrowsNever == FALSE
WriteThrows == CheckCancelled(jCancelled)

\* JoinedObjectInputStream::GetSize
GetSizeRemaining ==
    (Len(jA) - jPos1) + (Len(jB) - jPos2)
GetSize == jSize1 + jSize2

\* `if (r < size)`: stream 1 moved fewer bytes than it was asked to
ExhaustsOnZero(r, size) == r = 0
Exhausts(r, size) == r < size

\* Body of JoinedObjectInputStreamBase::Read after CheckCancelled().
\* Result: bytes placed in the caller's buffer (the first r of them are
\* returned), the new flag, and what each underlying stream was asked/gave.
JoinedReadNoAdd(a, b, ex, p1, p2, size) ==
    IF ~ex
    THEN LET d1 == StreamRead(a, p1, size)
         IN  IF Len(d1) < size
             THEN LET d2 == StreamRead(b, p2, size - Len(d1))
                  IN  [ex |-> TRUE, hook |-> 1, buf |-> d1 \o d2, r |-> Len(d2),
                       n1 |-> Len(d1), n2 |-> Len(d2),
                       req1 |-> size, req2 |-> size - Len(d1),
                       ops |-> <<"stream1", "flag", "hook", "stream2">>]
             ELSE [ex |-> FALSE, hook |-> 0, buf |-> d1, r |-> Len(d1),
                   n1 |-> Len(d1), n2 |-> 0, req1 |-> size, req2 |-> 0,
                   ops |-> <<"stream1">>]
    ELSE LET d2 == StreamRead(b, p2, size)
         IN  [ex |-> TRUE, hook |-> 0, buf |-> d2, r |-> Len(d2),
              n1 |-> 0, n2 |-> Len(d2), req1 |-> 0, req2 |-> size,
              ops |-> <<"stream2">>]
JoinedRead(a, b, ex, p1, p2, size) ==
    IF ~ex
    THEN LET d1 == StreamRead(a, p1, size)
             r1 == Len(d1)
         IN  IF Exhausts(r1, size)
             THEN LET d2 == StreamRead(b, p2, size - r1)
                  IN  [ex |-> TRUE, hook |-> 1, buf |-> d1 \o d2, r |-> r1 + Len(d2),
                       n1 |-> r1, n2 |-> Len(d2),
                       req1 |-> size, req2 |-> size - r1,
                       ops |-> <<"stream1", "flag", "hook", "stream2">>]
             ELSE [ex |-> FALSE, hook |-> 0, buf |-> d1, r |-> r1,
                   n1 |-> r1, n2 |-> 0, req1 |-> size, req2 |-> 0,
                   ops |-> <<"stream1">>]
    ELSE LET d2 == StreamRead(b, p2, size)
         IN  [ex |-> TRUE, hook |-> 0, buf |-> d2, r |-> Len(d2),
              n1 |-> 0, n2 |-> Len(d2), req1 |-> 0, req2 |-> size,
              ops |-> <<"stream2">>]

\* Body of JoinedObjectOutputStreamBase::Write after CheckCancelled().
\* w1, w2: the bytes stream 1 and stream 2 accepted; off2: what was offered
\* to stream 2.
JoinedWriteFromStart(c1, o1, c2, o2, ex, data) ==
    IF ~ex
    THEN LET w1 == StreamWrite(c1, o1, data)
             r1 == Len(w1)
         IN  IF r1 < Len(data)
             THEN LET off == SubSeq(data, 1, Len(data) - r1)
                      w2  == StreamWrite(c2, o2, off)
                  IN  [ex |-> TRUE, hook |-> 1, w1 |-> w1, w2 |-> w2,
                       off2 |-> off, r |-> r1 + Len(w2), acc1 |-> TRUE, acc2 |-> TRUE,
                       ops |-> <<"stream1", "flag", "hook", "stream2">>]
             ELSE [ex |-> FALSE, hook |-> 0, w1 |-> w1, w2 |-> << >>,
                   off2 |-> << >>, r |-> r1, acc1 |-> TRUE, acc2 |-> FALSE,
                   ops |-> <<"stream1">>]
    ELSE LET w2 == StreamWrite(c2, o2, data)
         IN  [ex |-> TRUE, hook |-> 0, w1 |-> << >>, w2 |-> w2,
              off2 |-> data, r |-> Len(w2), acc1 |-> FALSE, acc2 |-> TRUE,
              ops |-> <<"stream2">>]
JoinedWrite(c1, o1, c2, o2, ex, data) ==
    IF ~ex
    THEN LET w1 == StreamWrite(c1, o1, data)
             r1 == Len(w1)
         IN  IF Exhausts(r1, Len(data))
             THEN LET off == SubSeq(data, r1 + 1, Len(data))
                      w2  == StreamWrite(c2, o2, off)
                  IN  [ex |-> TRUE, hook |-> 1, w1 |-> w1, w2 |-> w2,
                       off2 |-> off, r |-> r1 + Len(w2), acc1 |-> TRUE, acc2 |-> TRUE,
                       ops |-> <<"stream1", "flag", "hook", "stream2">>]
             ELSE [ex |-> FALSE, hook |-> 0, w1 |-> w1, w2 |-> << >>,
                   off2 |-> << >>, r |-> r1, acc1 |-> TRUE, acc2 |-> FALSE,
                   ops |-> <<"stream1">>]
    ELSE LET w2 == StreamWrite(c2, o2, data)
         IN  [ex |-> TRUE, hook |-> 0, w1 |-> << >>, w2 |-> w2,
              off2 |-> data, r |-> Len(w2), acc1 |-> FALSE, acc2 |-> TRUE,
              ops |-> <<"stream2">>]

\* the state of the joined stream at the entry of a call
JEntry == [ex |-> jExhausted, pos1 |-> jPos1, pos2 |-> jPos2,
           out1 |-> jOut1, out2 |-> jOut2, hooks |-> jHooks,
           cancelled |-> jCancelled, delivered |-> jDelivered]

\* JoinedObjectInputStream(s1, s2) / JoinedObjectOutputStream(s1, s2)
JInit ==
    /\ jDir \in {"in", "out"}
    /\ IF jDir = "in"
       THEN /\ jA \in SeqsUpTo(Bytes, MaxLen)
            /\ jB \in SeqsUpTo(Bytes, MaxLen)
            /\ jCap1 = 0 /\ jCap2 = 0
       ELSE /\ jA = << >> /\ jB = << >>
            /\ jCap1 \in 0..MaxLen
            /\ jCap2 \in 0..MaxLen
    /\ jPos1 = 0 /\ jPos2 = 0
    /\ jOut1 = << >> /\ jOut2 = << >>
    /\ jSize1 = Len(jA) /\ jSize2 = Len(jB)
    /\ jExhausted = FALSE
    /\ jCancelled = FALSE
    /\ jHooks = 0
    /\ jDelivered = << >>
    /\ jLast = NoCall

\* JoinedObjectInputStreamBase::Read(data, size)
Read(size) ==
    /\ jDir = "in"
    /\ IF ReadThrows
       THEN /\ jLast' = [kind |-> "read", size |-> size, entry |-> JEntry,
                         res |-> "Cancelled"]
            /\ UNCHANGED <<jPos1, jPos2, jExhausted, jHooks, jDelivered>>
       ELSE LET c == JoinedRead(jA, jB, jExhausted, jPos1, jPos2, size)
            IN  /\ jPos1' = jPos1 + c.n1
                /\ jPos2' = jPos2 + c.n2
                /\ jExhausted' = c.ex
                /\ jHooks' = jHooks + c.hook
                /\ jDelivered' = jDelivered \o SubSeq(c.buf, 1, c.r)
                /\ jLast' = [kind |-> "read", size |-> size, entry |-> JEntry,
                             res |-> "ok", r |-> c.r, n1 |-> c.n1, n2 |-> c.n2,
                             req1 |-> c.req1, req2 |-> c.req2, ops |-> c.ops]
    /\ UNCHANGED <<jDir, jA, jB, jCap1, jCap2, jOut1, jOut2, jSize1, jSize2, jCancelled>>
    /\ UNCHANGED <<svars, tvars, pvars, ivars>>

\* JoinedObjectOutputStreamBase::Write(data, size)
Write(data) ==
    /\ jDir = "out"
    /\ IF WriteThrows
       THEN /\ jLast' = [kind |-> "write", data |-> data, entry |-> JEntry,
                         res |-> "Cancelled"]
            /\ UNCHANGED <<jOut1, jOut2, jExhausted, jHooks, jDelivered>>
       ELSE LET c == JoinedWrite(jCap1, jOut1, jCap2, jOut2, jExhausted, data)
            IN  /\ jOut1' = jOut1 \o c.w1
                /\ jOut2' = jOut2 \o c.w2
                /\ jExhausted' = c.ex
                /\ jHooks' = jHooks + c.hook
                /\ jDelivered' = jDelivered \o SubSeq(data, 1, c.r)
                /\ jLast' = [kind |-> "write", data |-> data, entry |-> JEntry,
                             res |-> "ok", r |-> c.r, w1 |-> c.w1, w2 |-> c.w2,
                             off2 |-> c.off2, acc1 |-> c.acc1, acc2 |-> c.acc2,
                             ops |-> c.ops]
    /\ UNCHANGED <<jDir, jA, jB, jPos1, jPos2, jCap1, jCap2, jSize1, jSize2, jCancelled>>
    /\ UNCHANGED <<svars, tvars, pvars, ivars>>

\* CancellableStream::Cancel(): trips the flag
Cancel ==
    /\ ~jCancelled
    /\ jCancelled' = TRUE
    /\ UNCHANGED <<jDir, jA, jB, jPos1, jPos2, jCap1, jCap2, jOut1, jOut2,
                   jSize1, jSize2, jExhausted, jHooks, jDelivered, jLast>>
    /\ UNCHANGED <<svars, tvars, pvars, ivars>>

\* no joined stream constructed (the session specifications)
JNone ==
    /\ jDir = "none"
    /\ jA = << >> /\ jB = << >>
    /\ jPos1 = 0 /\ jPos2 = 0
    /\ jCap1 = 0 /\ jCap2 = 0
    /\ jOut1 = << >> /\ jOut2 = << >>
    /\ jSize1 = 0 /\ jSize2 = 0
    /\ jExhausted = FALSE
    /\ jCancelled = FALSE
    /\ jHooks = 0
    /\ jDelivered = << >>
    /\ jLast = NoCall

(***************************************************************************)
(* cli::Session: path resolution over the device's object tree.            *)
(***************************************************************************)
\* largest number of "/"-separated components of a path given to Resolve
MaxComps == 3
\* largest number of components of a path given to cd
MaxCdComps == 2

\* mtp::Session::Device, mtp::Session::Root, mtp::Session::AllStorages.
\* Root and AllStorages are 0xFFFFFFFF, written here as the 32-bit value -1.
Device == 0
Root == -1
AllStorages == -1

\* the object handles of the device, in the order its listings return them
Handles == DOMAIN dParent
\* the handles of the device whose paths are resolved
DeviceObjects == {1, 2, 3}
\* object filenames on the device: they differ only in letter case
Names == {<<"a">>, <<"A">>}
\* the components a path is made of
Comps == {<< >>, <<".">>, <<".", ".">>} \cup Names

\* components joined by "/" into a path
RECURSIVE JoinPath(_)
JoinPath(cs) ==
    IF Len(cs) = 0 THEN << >>
    ELSE IF Len(cs) = 1 THEN cs[1]
    ELSE cs[1] \o <<"/">> \o JoinPath(Tail(cs))

Paths == {JoinPath(cs) : cs \in SeqsUpTo(Comps, MaxComps)}
CdPaths == {JoinPath(cs) : cs \in SeqsUpTo(Comps, MaxCdComps)}

\* tolower() of one character, as strncasecmp applies it
Lower(c) == IF c = "A" THEN "a" ELSE c

\* BeginsWith(str, prefix) of the anonymous namespace
BeginsWith(str, prefix) ==
    IF Len(prefix) > Len(str) THEN FALSE
    ELSE \A i \in 1..Len(prefix) : Lower(str[i]) = Lower(prefix[i])

\* device: GetObjectHandles(storage, Any, parent), in the device's order.
\* parent Root lists the objects of the root, parent Device every object.
RECURSIVE HandlesFrom(_, _)
HandlesFrom(parent, h) ==
    IF h \notin Handles THEN << >>
    ELSE LET listed == IF parent = Root THEN dParent[h] = Device
                       ELSE IF parent = Device THEN TRUE
                       ELSE dParent[h] = parent
         IN  (IF listed THEN <<h>> ELSE << >>) \o HandlesFrom(parent, h + 1)
GetObjectHandles(storage, parent) == HandlesFrom(parent, 1)

\* device: GetObjectStringProperty(object, ObjectFilename)
GetObjectFilename(object) == dName[object]

\* device: GetObjectParent(id); the sentinels are no object handles
GetObjectParent(id) ==
    IF id \in Handles THEN [kind |-> "ok", id |-> dParent[id]]
    ELSE [kind |-> "error", what |-> <<"InvalidObjectHandle">>]

\* `name == entity` of ResolveObjectChild (std::string comparison)
NameEqNoCase(name, entity) ==
    /\ Len(name) = Len(entity)
    /\ \A i \in 1..Len(name) : Lower(name[i]) = Lower(entity[i])
NameEq(name, entity) == name = entity

\* the throw that ends ResolveObjectChild when no child matched
ChildNotFoundSkip(parent, entity, log) ==
    [kind |-> "ok", id |-> parent, log |-> log]
ChildNotFound(parent, entity, log) ==
    [kind |-> "error", what |-> <<"could not find">> \o entity, log |-> log]

\* the loop of ResolveObjectChild over objectList.ObjectHandles from index i
RECURSIVE ScanChildren(_, _, _, _, _)
ScanChildren(parent, list, i, entity, log) ==
    IF i > Len(list) THEN ChildNotFound(parent, entity, log)
    ELSE LET log2 == Append(log, <<"GetObjectStringProperty", list[i]>>)
         IN  IF NameEq(GetObjectFilename(list[i]), entity)
             THEN [kind |-> "ok", id |-> list[i], log |-> log2]
             ELSE ScanChildren(parent, list, i + 1, entity, log2)

\* Session::ResolveObjectChild(parent, entity); log: device operations so far
ResolveObjectChild(parent, entity, log) ==
    ScanChildren(parent, GetObjectHandles(sCs, parent), 1, entity,
                 Append(log, <<"GetObjectHandles", parent>>))

\* path.find('/', p), with npos replaced by path.size() (0-based offsets)
RECURSIVE NextSlash(_, _)
NextSlash(path, p) ==
    IF p >= Len(path) THEN Len(path)
    ELSE IF path[p + 1] = "/" THEN p
    ELSE NextSlash(path, p + 1)

\* `entity.empty() || entity == "."`
IsNoOpEmptyOnly(entity) == entity = << >>
IsNoOp(entity) == entity = << >> \/ entity = <<".">>

\* `if (id == Device) id = Root` after GetObjectParent
FoldDeviceMissing(id) == id
FoldDevice(id) == IF id = Device THEN Root ELSE id

\* the first line of Resolve: where resolution starts
StartId(cd, path) == IF BeginsWith(path, <<"/">>) THEN Root ELSE cd

\* the for loop of Session::Resolve, at offset p with `id` reached so far
RECURSIVE ResolveLoop(_, _, _, _)
ResolveLoop(path, p, id, log) ==
    IF ~(p < Len(path)) THEN [kind |-> "ok", id |-> id, log |-> log]
    ELSE LET next   == NextSlash(path, p)
             entity == SubSeq(path, p + 1, next)
         IN  IF IsNoOp(entity) THEN ResolveLoop(path, next + 1, id, log)
             ELSE IF entity = <<".", ".">>
             THEN LET par  == GetObjectParent(id)
                      log2 == Append(log, <<"GetObjectParent", id>>)
                  IN  IF par.kind = "error"
                      THEN [kind |-> "error", what |-> par.what, log |-> log2]
                      ELSE ResolveLoop(path, next + 1, FoldDevice(par.id), log2)
             ELSE LET r == ResolveObjectChild(id, entity, log)
                  IN  IF r.kind = "error" THEN r
                      ELSE ResolveLoop(path, next + 1, r.id, r.log)

\* Session::Resolve(path) with _cd = cd
Resolve(cd, path) == ResolveLoop(path, 0, StartId(cd, path), << >>)

\* what a caller sees of a Resolve: the object, or the exception
Outcome(r) == IF r.kind = "ok" THEN [kind |-> "ok", id |-> r.id]
              ELSE [kind |-> "error", what |-> r.what]

NoCommand == [cmd |-> "none"]

\* Session::Session and a device holding some tree of objects
SInit ==
    /\ dParent \in {f \in [DeviceObjects -> {Device} \cup DeviceObjects] :
                       \A h \in DeviceObjects : f[h] = Device \/ f[h] < h}
    /\ dName \in [DeviceObjects -> Names]
    /\ dFormat = [h \in DeviceObjects |-> "Association"]
    /\ sCd = Root
    /\ sCs = AllStorages
    /\ sPc = "idle"
    /\ rCall = NoCommand

\* a command that only resolves its path argument (ls, cat, get, ...)
ResolveCommand(path) ==
    /\ sPc = "idle"
    /\ LET r == Resolve(sCd, path)
       IN  rCall' = [cmd |-> "resolve", path |-> path, cd |-> sCd, cs |-> sCs,
                     out |-> Outcome(r), log |-> r.log]
    /\ sPc' = "resolved"
    /\ UNCHANGED <<dParent, dName, dFormat, sCd, sCs>>
    /\ UNCHANGED <<jvars, tvars, pvars, ivars>>

\* cd <path>: Session::ChangeDirectory, _cd = Resolve(path)
ChangeDirectory(path) ==
    /\ sPc = "idle"
    /\ LET r == Resolve(sCd, path)
       IN  /\ rCall' = [cmd |-> "cd", path |-> path, cd |-> sCd, cs |-> sCs,
                        out |-> Outcome(r), log |-> r.log]
           /\ sCd' = IF r.kind = "ok" THEN r.id ELSE sCd
    /\ sPc' = "resolved"
    /\ UNCHANGED <<dParent, dName, dFormat, sCs>>
    /\ UNCHANGED <<jvars, tvars, pvars, ivars>>

\* InteractiveInput: the command is over (or its exception was reported) and
\* the loop reads the next line
NextLine ==
    /\ sPc = "resolved"
    /\ sPc' = "idle"
    /\ rCall' = NoCommand
    /\ UNCHANGED <<dParent, dName, dFormat, sCd, sCs>>
    /\ UNCHANGED <<jvars, tvars, pvars, ivars>>

\* no session (the joined stream specification)
SNone ==
    /\ dParent = << >>
    /\ dName = << >>
    /\ dFormat = << >>
    /\ sCd = Root
    /\ sCs = AllStorages
    /\ sPc = "none"
    /\ rCall = NoCommand

(***************************************************************************)
(* cli::Session: recursive put and get.  One put or get command runs per   *)
(* behaviour, from a device and a local directory chosen initially.        *)
(***************************************************************************)
Slash == <<"/">>

\* path.rfind('/') as a 1-based index, 0 for npos
RFind(path) ==
    IF \E i \in 1..Len(path) : path[i] = "/"
    THEN CHOOSE i \in 1..Len(path) :
            /\ path[i] = "/"
            /\ \A j \in (i + 1)..Len(path) : path[j] # "/"
    ELSE 0

\* Session::GetFilename(path)
GetFilename(path) == SubSeq(path, RFind(path) + 1, Len(path))

\* the local directory d, holding the file f (1 byte) and the directory s
\* with the file g (2 bytes)
LocalDir(order) ==
    [p \in {<<"d">>, <<"d", "/", "s">>, <<"d", "/", "f">>, <<"d", "/", "s", "/", "g">>} |->
        IF p = <<"d">> THEN [dir |-> TRUE, entries |-> order, size |-> 0]
        ELSE IF p = <<"d", "/", "s">> THEN [dir |-> TRUE, entries |-> <<<<"g">>>>, size |-> 0]
        ELSE IF p = <<"d", "/", "f">> THEN [dir |-> FALSE, entries |-> << >>, size |-> 1]
        ELSE [dir |-> FALSE, entries |-> << >>, size |-> 2]]
LocalDirs == {LocalDir(<<<<"s">>, <<"f">>>>), LocalDir(<<<<"f">>, <<"s">>>>)}

\* what the device holds before the command: nothing, d, d and d/s, or the
\* whole tree d, d/s, d/s/g, d/f
DeviceContents ==
    { [parent |-> << >>, name |-> << >>, format |-> << >>],
      [parent |-> <<Device>>, name |-> <<<<"d">>>>, format |-> <<"Association">>],
      [parent |-> <<Device, 1>>, name |-> <<<<"d">>, <<"s">>>>,
       format |-> <<"Association", "Association">>],
      [parent |-> <<Device, 1, 2, 1>>,
       name |-> <<<<"d">>, <<"s">>, <<"g">>, <<"f">>>>,
       format |-> <<"Association", "Association", "Undefined", "Undefined">>] }

CurrentDevice == [parent |-> dParent, name |-> dName, format |-> dFormat]

\* device: SendObjectInfo creates the object and assigns the next handle
AddObject(parentId, name, format) ==
    [parent |-> Append(dParent, IF parentId = Root THEN Device ELSE parentId),
     name   |-> Append(dName, name),
     format |-> Append(dFormat, format)]

\* the operation that fails during a step, if any: a failure that concerns
\* the one file or directory ("perfile"), or the loss of the session ("fatal")
NoFail == [op |-> "none", kind |-> "none"]
PutFails ==
    {NoFail}
    \cup {[op |-> o, kind |-> "perfile"] : o \in {"stat", "opendir", "readdir", "open"}}
    \cup {[op |-> o, kind |-> k] :
            o \in {"CreateDirectory", "SendObjectInfo", "SendObject"},
            k \in {"perfile", "fatal"}}
GetFails ==
    {NoFail}
    \cup {[op |-> "open", kind |-> "perfile"]}
    \cup {[op |-> o, kind |-> k] :
            o \in {"GetObjectFormat", "GetObjectHandles", "GetObjectInfo",
                   "GetObjectSize", "GetObject"},
            k \in {"perfile", "fatal"}}

NoErr == [kind |-> "none"]
NoDir == [kind |-> "none"]
NoFile == [kind |-> "none"]

\* ObjectInputStream::GetSize of the stream opened on the local file src
StreamSize(src) == lFs[src].size

\* `oi.SetSize(stream->GetSize())`: the size SendObjectInfo declares
DeclaredSizeZero(src) == 0
DeclaredSize(src) == StreamSize(src)

\* an exception leaving Put / Get with the directory loops in `stack` active:
\* neither function has a handler, so every loop is left
UnwindCaughtInLoop(stack) == stack
Unwind(stack) == << >>

\* the exception as InteractiveInput gets it; dropped: the loops it ended
Thrown(f, op, at, stack) ==
    [kind |-> f.kind, op |-> op, at |-> at, dropped |-> stack,
     attempts |-> Len(tAttempted) + 1]

\* the name MakeOrResolveDirectory looks up after a failed CreateDirectory
LookupName(dst, src) == src

\* Session::MakeOrResolveDirectory(parentId, dst, src)
MakeOrResolveDirectory(parentId, dst, src, f, log) ==
    LET name   == GetFilename(dst)
        log1   == Append(log, <<"SendObjectInfo", name, parentId, "Association">>)
        kids   == GetObjectHandles(sCs, parentId)
        exists == \E k \in 1..Len(kids) : dName[kids[k]] = name
        call   == [kind |-> "call", parent |-> parentId, dst |-> dst, src |-> src,
                   id |-> Device, exists |-> exists /\ f.op # "CreateDirectory"]
    IN  IF ~exists /\ f.op # "CreateDirectory"
        THEN [kind |-> "ok", id |-> Len(dParent) + 1, log |-> log1,
              dev |-> AddObject(parentId, name, "Association"),
              dir |-> [call EXCEPT !.kind = "created", !.id = Len(dParent) + 1]]
        ELSE IF f.op = "CreateDirectory" /\ f.kind = "fatal"
        THEN [kind |-> "error", op |-> "GetObjectHandles", fail |-> f,
              log |-> Append(log1, <<"GetObjectHandles", parentId>>),
              dir |-> [call EXCEPT !.kind = "error"]]
        ELSE LET r == ResolveObjectChild(parentId, LookupName(dst, src), log1)
             IN  IF r.kind = "ok"
                 THEN [kind |-> "ok", id |-> r.id, log |-> r.log, dev |-> CurrentDevice,
                       dir |-> [call EXCEPT !.kind = "reused", !.id = r.id]]
                 ELSE [kind |-> "error", op |-> "ResolveObjectChild",
                       fail |-> [op |-> "ResolveObjectChild", kind |-> "perfile"],
                       log |-> r.log, dir |-> [call EXCEPT !.kind = "error"]]

\* Session::Put(parentId, dst, src), up to the point where it returns, throws
\* or starts its directory loop; base: the directory loops of its callers
PutBody(parentId, dst, src, base, f, log) ==
    LET att == Append(tAttempted, src)
        opened == [kind |-> "file", parent |-> parentId, dst |-> dst, src |-> src,
                   from |-> Len(log)]
        throw(op, fl, lg, dev, dir, file) ==
            [dev |-> dev, stack |-> Unwind(base), log |-> lg, att |-> att,
             err |-> Thrown(fl, op, src, base), dir |-> dir, file |-> file]
    IN  IF f.op = "stat" THEN throw("stat", f, log, CurrentDevice, tDir, tFile)
        ELSE IF lFs[src].dir
        THEN LET mk == MakeOrResolveDirectory(parentId, dst, src, f, log)
             IN  IF mk.kind = "error"
                 THEN throw(mk.op, mk.fail, mk.log, CurrentDevice, mk.dir, tFile)
                 ELSE IF f.op = "opendir"
                 THEN [dev |-> mk.dev, stack |-> base,
                       log |-> Append(mk.log, <<"perror", src>>), att |-> att,
                       err |-> tErr, dir |-> mk.dir, file |-> tFile]
                 ELSE [dev |-> mk.dev,
                       stack |-> Append(base, [id |-> mk.id, dst |-> dst, src |-> src,
                                               rest |-> lFs[src].entries]),
                       log |-> mk.log, att |-> att, err |-> tErr, dir |-> mk.dir,
                       file |-> tFile]
        ELSE IF f.op = "open" THEN throw("open", f, log, CurrentDevice, tDir, tFile)
        ELSE LET log1 == Append(log, <<"SendObjectInfo", GetFilename(dst), parentId,
                                       "Undefined", DeclaredSize(src)>>)
             IN  IF f.op = "SendObjectInfo"
                 THEN throw("SendObjectInfo", f, log1, CurrentDevice, tDir, opened)
                 ELSE LET dev1 == AddObject(parentId, GetFilename(dst), "Undefined")
                          log2 == Append(log1, <<"SendObject", src, StreamSize(src)>>)
                      IN  IF f.op = "SendObject"
                          THEN throw("SendObject", f, log2, dev1, tDir, opened)
                          ELSE [dev |-> dev1, stack |-> base, log |-> log2,
                                att |-> att, err |-> tErr, dir |-> tDir,
                                file |-> opened]

\* Session::Get(dst, srcId), up to the point where it returns, throws or
\* starts its loop over the handles of the association
GetBody(dst, srcId, base, f, log) ==
    LET att == Append(tAttempted, srcId)
        throw(op, lg) ==
            [dev |-> CurrentDevice, stack |-> Unwind(base), log |-> lg, att |-> att,
             err |-> Thrown(f, op, srcId, base), dir |-> tDir, file |-> tFile]
        log1 == Append(log, <<"GetObjectIntegerProperty", srcId, "ObjectFormat">>)
    IN  IF f.op = "GetObjectFormat" THEN throw("GetObjectFormat", log1)
        ELSE IF dFormat[srcId] = "Association"
        THEN LET log2 == log1 \o <<<<"mkdir", dst>>, <<"GetObjectHandles", srcId>>>>
             IN  IF f.op = "GetObjectHandles" THEN throw("GetObjectHandles", log2)
                 ELSE [dev |-> CurrentDevice,
                       stack |-> Append(base, [id |-> srcId, dst |-> dst, src |-> << >>,
                                               rest |-> GetObjectHandles(sCs, srcId)]),
                       log |-> log2, att |-> att, err |-> tErr, dir |-> tDir,
                       file |-> tFile]
        ELSE LET log2 == Append(log1, <<"open", dst>>)
                 log3 == IF sInteractive
                         THEN Append(log2, <<"GetObjectIntegerProperty", srcId, "ObjectSize">>)
                         ELSE log2
                 log4 == Append(log3, <<"GetObject", srcId>>)
             IN  IF f.op = "open" THEN throw("open", log2)
                 ELSE IF f.op = "GetObjectSize" /\ sInteractive THEN throw("GetObjectSize", log3)
                 ELSE IF f.op = "GetObject" THEN throw("GetObject", log4)
                 ELSE [dev |-> CurrentDevice, stack |-> base, log |-> log4,
                       att |-> att, err |-> tErr, dir |-> tDir, file |-> tFile]

\* the command's state after a step that ended as `res`
Becomes(res) ==
    /\ dParent' = res.dev.parent
    /\ dName' = res.dev.name
    /\ dFormat' = res.dev.format
    /\ tStack' = res.stack
    /\ tLog' = res.log
    /\ tAttempted' = res.att
    /\ tErr' = res.err
    /\ tDir' = res.dir
    /\ tFile' = res.file
    /\ tPhase' = IF res.stack # << >> THEN "running"
                 ELSE IF res.err.kind # "none" THEN "failed" ELSE "done"
    /\ UNCHANGED <<lFs, sInteractive, sCd, sCs, sPc, rCall, jvars, pvars, ivars>>

\* a Session with a device and a local directory to transfer
TInit ==
    /\ \E d \in DeviceContents :
          /\ dParent = d.parent
          /\ dName = d.name
          /\ dFormat = d.format
    /\ lFs \in LocalDirs
    /\ sInteractive \in BOOLEAN
    /\ sCd = Root
    /\ sCs = AllStorages
    /\ sPc = "none"
    /\ rCall = NoCommand
    /\ tPhase = "idle"
    /\ tCmd = "none"
    /\ tStack = << >>
    /\ tLog = << >>
    /\ tAttempted = << >>
    /\ tErr = NoErr
    /\ tDir = NoDir
    /\ tFile = NoFile

\* put <file>: Session::Put(src) calls Put(_cd, GetFilename(src), src)
PutCommand(src, f) ==
    /\ tPhase = "idle"
    /\ tCmd' = "put"
    /\ Becomes(PutBody(sCd, GetFilename(src), src, << >>, f, << >>))

\* one round of the readdir loop of the innermost active Put
PutStep(f) ==
    /\ tPhase = "running"
    /\ tCmd = "put"
    /\ LET top  == tStack[Len(tStack)]
           below == SubSeq(tStack, 1, Len(tStack) - 1)
       IN  IF f.op = "readdir"
           THEN Becomes([dev |-> CurrentDevice, stack |-> Unwind(below), log |-> tLog,
                         att |-> tAttempted, dir |-> tDir, file |-> tFile,
                         err |-> [Thrown(f, "readdir", top.src, below)
                                    EXCEPT !.attempts = Len(tAttempted)]])
           ELSE IF top.rest = << >>
           THEN Becomes([dev |-> CurrentDevice, stack |-> below, log |-> tLog,
                         att |-> tAttempted, dir |-> tDir, file |-> tFile,
                         err |-> tErr])
           ELSE LET fname == Head(top.rest)
                    base  == Append(below, [top EXCEPT !.rest = Tail(top.rest)])
                IN  Becomes(PutBody(top.id, top.dst \o Slash \o fname,
                                    top.src \o Slash \o fname, base, f, tLog))
    /\ UNCHANGED tCmd

\* get <path>: Session::Get(srcId)
GetCommand(srcId, f) ==
    /\ tPhase = "idle"
    /\ srcId \in Handles
    /\ tCmd' = "get"
    /\ LET log1 == <<<<"GetObjectInfo", srcId>>>>
       IN  IF f.op = "GetObjectInfo"
           THEN Becomes([dev |-> CurrentDevice, stack |-> << >>, log |-> log1,
                         att |-> << >>, dir |-> tDir, file |-> tFile,
                         err |-> [Thrown(f, "GetObjectInfo", srcId, << >>)
                                    EXCEPT !.attempts = 0]])
           ELSE Becomes(GetBody(dName[srcId], srcId, << >>, f, log1))

\* one round of the loop over obj.ObjectHandles of the innermost active Get
GetStep(f) ==
    /\ tPhase = "running"
    /\ tCmd = "get"
    /\ LET top  == tStack[Len(tStack)]
           below == SubSeq(tStack, 1, Len(tStack) - 1)
       IN  IF top.rest = << >>
           THEN Becomes([dev |-> CurrentDevice, stack |-> below, log |-> tLog,
                         att |-> tAttempted, dir |-> tDir, file |-> tFile,
                         err |-> tErr])
           ELSE LET id   == Head(top.rest)
                    base == Append(below, [top EXCEPT !.rest = Tail(top.rest)])
                    log1 == Append(tLog, <<"GetObjectInfo", id>>)
                IN  IF f.op = "GetObjectInfo"
                    THEN Becomes([dev |-> CurrentDevice, stack |-> Unwind(base),
                                  log |-> log1, att |-> tAttempted, dir |-> tDir, file |-> tFile,
                                  err |-> [Thrown(f, "GetObjectInfo", id, base)
                                             EXCEPT !.attempts = Len(tAttempted)]])
                    ELSE Becomes(GetBody(top.dst \o Slash \o dName[id], id, base, f, log1))
    /\ UNCHANGED tCmd

\* no put or get command (the other specifications)
TNone ==
    /\ lFs = << >>
    /\ sInteractive = FALSE
    /\ tPhase = "none"
    /\ tCmd = "none"
    /\ tStack = << >>
    /\ tLog = << >>
    /\ tAttempted = << >>
    /\ tErr = NoErr
    /\ tDir = NoDir
    /\ tFile = NoFile

(***************************************************************************)
(* cli::Session: test-property-list.  The device's replies to               *)
(* GetObjectPropertyList are whatever the device sends: any list of         *)
(* (object, property code) entries.                                        *)
(***************************************************************************)
\* largest number of entries in one property list reply
MaxEntries == 2

\* mtp::ObjectProperty::All
All == "All"

\* the properties TestObjectPropertyList tests, in its order
Tested == <<"ObjectFilename", "ObjectFormat", "ObjectSize",
            "DateModified", "DateAdded", All>>

\* object ids and property codes a reply may carry
ReplyObjects == {2, 3, 4}
ReplyCodes == {"ObjectFilename", "ObjectSize"}
Replies == SeqsUpTo(ReplyObjects \X ReplyCodes, MaxEntries)

\* the paths given to test-property-list
TestPaths == {<<"/">>, <<"d">>, <<"d", "/", "s">>, <<"x">>}

NoList == [kind |-> "none"]

\* `p == property || property == ObjectProperty::All`
AcceptsAny(p, property) == TRUE
Accepts(p, property) == p = property \/ property = All

\* the callback GetObjectPropertyList hands to the parser, for one entry
OnEntry(acc, objectId, p, property) ==
    IF Accepts(p, property)
    THEN [acc EXCEPT !.objectList = @ \cup {objectId}]
    ELSE [acc EXCEPT !.extra = Append(@, <<p, objectId>>), !.ok = FALSE]

\* parser.Parse(data, callback): the callback on every entry, in order
RECURSIVE Parse(_, _, _, _)
Parse(entries, i, property, acc) ==
    IF i > Len(entries) THEN acc
    ELSE Parse(entries, i + 1, property,
               OnEntry(acc, entries[i][1], entries[i][2], property))

\* std::set_difference(first, second)
SetDifference(first, second) == first \ second

\* Session::GetObjectPropertyList(parent, originalObjectList, property) on
\* the reply `entries`: what it collected and printed
GetObjectPropertyList(parent, originalObjectList, property, entries) ==
    LET parsed    == Parse(entries, 1, property,
                           [objectList |-> {}, ok |-> TRUE, extra |-> << >>])
        extraData == SetDifference(parsed.objectList, originalObjectList)
        ok        == parsed.ok /\ extraData = {}
    IN  [kind |-> "list", parent |-> parent, property |-> property,
         entries |-> entries, objectList |-> parsed.objectList,
         extra |-> parsed.extra, inconsistent |-> extraData # {},
         missing |-> extraData,
         verdict |-> IF ok THEN "PASSED" ELSE "FAILED"]

\* a Session with a device, before test-property-list
PInit ==
    /\ \E d \in DeviceContents :
          /\ dParent = d.parent
          /\ dName = d.name
          /\ dFormat = d.format
    /\ sCd = Root
    /\ sCs = AllStorages
    /\ sPc = "none"
    /\ rCall = NoCommand
    /\ pPc = "idle"
    /\ pParent = Device
    /\ pOriginal = {}
    /\ pIdx = 0
    /\ pLast = NoList

\* Session::TestObjectPropertyList(path), up to its first
\* GetObjectPropertyList call
TestObjectPropertyList(path) ==
    /\ pPc = "idle"
    /\ LET r == Resolve(sCd, path)
       IN  IF r.kind = "error"
           THEN /\ pPc' = "failed"
                /\ UNCHANGED <<pParent, pOriginal>>
           ELSE LET oh == GetObjectHandles(AllStorages, r.id)
                IN  /\ pPc' = "testing"
                    /\ pParent' = r.id
                    /\ pOriginal' = {oh[k] : k \in 1..Len(oh)}
    /\ UNCHANGED <<pIdx, pLast>>
    /\ UNCHANGED <<jvars, svars, tvars, ivars>>

\* the next of the six GetObjectPropertyList calls; the device answers
\* with the reply `entries`
PropertyListReply(entries) ==
    /\ pPc = "testing"
    /\ pLast' = GetObjectPropertyList(pParent, pOriginal, Tested[pIdx + 1], entries)
    /\ pIdx' = pIdx + 1
    /\ pPc' = IF pIdx + 1 = Len(Tested) THEN "done" ELSE "testing"
    /\ UNCHANGED <<pParent, pOriginal>>
    /\ UNCHANGED <<jvars, svars, tvars, ivars>>

\* the device answers a GetObjectPropertyList request with an error, or with
\* data the parser rejects: the exception leaves TestObjectPropertyList
PropertyListThrows ==
    /\ pPc = "testing"
    /\ pPc' = "failed"
    /\ UNCHANGED <<pParent, pOriginal, pIdx, pLast>>
    /\ UNCHANGED <<jvars, svars, tvars, ivars>>

\* no test-property-list (the other specifications)
PNone ==
    /\ pPc = "none"
    /\ pParent = Device
    /\ pOriginal = {}
    /\ pIdx = 0
    /\ pLast = NoList

PNext ==
    \/ \E path \in TestPaths : TestObjectPropertyList(path)
    \/ \E entries \in Replies : PropertyListReply(entries)
    \/ PropertyListThrows

(***************************************************************************)
(* cli::Session::InteractiveInput: the command loop.  A line is empty, quit, *)
(* a name that is no command, or a command that talks to the device (ls);   *)
(* what the device answers is decided when the command runs.               *)
(***************************************************************************)
\* largest number of lines of input
MaxLines == 3

Lines == {"", "quit", "bogus", "ls"}

\* how Execute of a device command can end: it returns, the device answers
\* with a response code that is not OK (mtp::InvalidResponseException), or
\* another std::exception is thrown
Returned == [kind |-> "ok"]
Executions ==
    {Returned, [kind |-> "exception", what |-> "could not find"]}
    \cup {[kind |-> "InvalidResponse", what |-> t] :
             t \in {"InvalidStorageID", "InvalidObjectHandle"}}

\* the text of the hint
Hint == "Your device might be locked or in usb-charging mode, please unlock it and put it in MTP or PTP mode"

NoRound == [kind |-> "none"]

\* Session::Quit
Quit == FALSE

\* Session::ProcessCommand(input) with the device command ending as `exec`:
\* how the call ends and the value of _running after it
ProcessCommand(input, running, exec) ==
    IF input = "" THEN [res |-> Returned, running |-> running]
    ELSE IF input = "bogus"
    THEN [res |-> [kind |-> "exception", what |-> "invalid command bogus"],
          running |-> running]
    ELSE IF input = "quit" THEN [res |-> Returned, running |-> Quit]
    ELSE [res |-> exec, running |-> running]

\* `ex.Type == mtp::ResponseType::InvalidStorageID`
ShowsHintNever(type) == FALSE
ShowsHint(type) == type = "InvalidStorageID"

\* the two catch clauses of InteractiveInput: what they write with error(...)
Reported(res) ==
    IF res.kind = "InvalidResponse"
    THEN <<<<"error: ", res.what>>>> \o
         (IF ShowsHint(res.what) THEN <<Hint>> ELSE << >>)
    ELSE <<<<"error: ", res.what>>>>

IEntry == [input |-> iInput, running |-> iRunning, err |-> iErr]

\* a Session whose InteractiveInput starts on some input
IInit ==
    /\ iPc = "loop"
    /\ iShowPrompt \in BOOLEAN
    /\ iLines \in SeqsUpTo(Lines, MaxLines)
    /\ iInput = iLines
    /\ iRunning = TRUE
    /\ iErr = << >>
    /\ iOut = << >>
    /\ iLast = NoRound

\* one round of the while loop: a line is read and processed
Round(exec) ==
    /\ iPc = "loop"
    /\ iInput # << >>
    /\ LET input == Head(iInput)
           c     == ProcessCommand(input, iRunning, exec)
       IN  /\ iInput' = Tail(iInput)
           /\ iRunning' = c.running
           /\ iLast' = [kind |-> "round", input |-> input, res |-> c.res,
                        entry |-> IEntry]
           /\ IF c.res.kind = "ok"
              THEN /\ iPc' = IF ~c.running THEN "returned" ELSE "loop"
                   /\ iErr' = iErr
              ELSE /\ iPc' = "loop"
                   /\ iErr' = iErr \o Reported(c.res)
    /\ UNCHANGED <<iShowPrompt, iLines, iOut>>
    /\ UNCHANGED <<jvars, svars, tvars, pvars>>

\* ReadLine / ReadRawLine reports the end of the input: the loop is over
EndOfInput ==
    /\ iPc = "loop"
    /\ iInput = << >>
    /\ iPc' = "returned"
    /\ iOut' = IF iShowPrompt THEN Append(iOut, "") ELSE iOut
    /\ iLast' = [kind |-> "eof", entry |-> IEntry]
    /\ UNCHANGED <<iShowPrompt, iLines, iInput, iRunning, iErr>>
    /\ UNCHANGED <<jvars, svars, tvars, pvars>>

\* no command loop (the other specifications)
INone ==
    /\ iPc = "none"
    /\ iShowPrompt = FALSE
    /\ iLines = << >>
    /\ iInput = << >>
    /\ iRunning = TRUE
    /\ iErr = << >>
    /\ iOut = << >>
    /\ iLast = NoRound

INext ==
    \/ \E exec \in Executions : Round(exec)
    \/ EndOfInput

TNext ==
    \/ \E f \in PutFails : PutCommand(<<"d">>, f)
    \/ \E f \in PutFails : PutStep(f)
    \/ \E srcId \in 1..4, f \in GetFails : GetCommand(srcId, f)
    \/ \E f \in GetFails : GetStep(f)

InitTransfer == TInit /\ JNone /\ PNone /\ INone

SpecTransfer == InitTransfer /\ [][TNext]_vars

JNext ==
    \/ \E size \in 1..MaxReq : Read(size)
    \/ \E data \in SeqsUpTo(Bytes, MaxReq) \ {<< >>} : Write(data)
    \/ Cancel

InitJoined == JInit /\ SNone /\ TNone /\ PNone /\ INone

SpecJoined == InitJoined /\ [][JNext]_vars

RNext ==
    \/ \E path \in Paths : ResolveCommand(path)
    \/ \E path \in CdPaths : ChangeDirectory(path)
    \/ NextLine

InitResolve == SInit /\ JNone /\ TNone /\ PNone /\ INone

SpecResolve == InitResolve /\ [][RNext]_vars

InitPropList == PInit /\ JNone /\ TNone /\ INone

SpecPropList == InitPropList /\ [][PNext]_vars

InitInput == IInit /\ JNone /\ SNone /\ TNone /\ PNone

SpecInput == InitInput /\ [][INext]_vars

(***************************************************************************)
(* Claims about the joined streams (checked under SpecJoined).             *)
(***************************************************************************)

\* C1: reading joined(a, b) until a call returns short delivers exactly the
\* bytes of a followed by the bytes of b; at every moment the bytes delivered
\* so far are a prefix of a \o b, and a call returns fewer bytes than
\* requested only when stream b itself returned short in that call.
C1_ReadYieldsConcat ==
    jDir = "in" =>
       /\ jDelivered = SubSeq(jA \o jB, 1, Len(jDelivered))
       /\ (jLast.kind = "read" /\ jLast.res = "ok" /\ jLast.r < jLast.size) =>
             /\ jDelivered = jA \o jB
             /\ jLast.req2 > 0
             /\ jLast.n2 < jLast.req2

\* a short Read whose bytes came from both streams, of different contents
C1_Witness ==
    /\ jDir = "in"
    /\ jLast.kind = "read" /\ jLast.res = "ok"
    /\ jLast.r < jLast.size
    /\ jLast.n1 > 0 /\ jLast.n2 > 0
    /\ jA # jB
    /\ jDelivered = jA \o jB

\* C2: GetSize() is size(a) + size(b) as at construction, in every state.
C2_GetSizeIsSum ==
    jDir = "in" => GetSize = Len(jA) + Len(jB)

\* both streams partly consumed and the switch to stream 2 already made
C2_Witness ==
    /\ jDir = "in"
    /\ jExhausted
    /\ jPos1 > 0 /\ jPos2 > 0
    /\ GetSize = Len(jA) + Len(jB)
    /\ GetSize # GetSizeRemaining

\* C3: a Read or Write entered with the cancellation flag set fails with
\* Cancelled, moves no byte of either underlying stream and leaves
\* _stream1Exhausted (and the hook count) as they were.
C3_CancelledCallDoesNoIO ==
    (jLast.kind # "none" /\ jLast.entry.cancelled) =>
       /\ jLast.res = "Cancelled"
       /\ jPos1 = jLast.entry.pos1 /\ jPos2 = jLast.entry.pos2
       /\ jOut1 = jLast.entry.out1 /\ jOut2 = jLast.entry.out2
       /\ jExhausted = jLast.entry.ex
       /\ jHooks = jLast.entry.hooks
       /\ jDelivered = jLast.entry.delivered

\* the flag was tripped between two calls: bytes had already moved, stream 1
\* was not yet exhausted and more bytes could have been moved
C3_Witness ==
    /\ jLast.kind = "write" /\ jLast.entry.cancelled
    /\ jLast.res = "Cancelled"
    /\ jDelivered # << >>
    /\ ~jExhausted
    /\ Len(jOut1) < jCap1

\* C4: a Write of n bytes of which stream 1 accepts k < n hands bytes [0, k)
\* to stream 1 and offers bytes [k, n) to stream 2 in the same call, and
\* returns k plus what stream 2 accepted; over all calls, what stream 1
\* received followed by what stream 2 received is the concatenation of the
\* bytes the calls reported as written.
C4_WriteSpansStreams ==
    jDir = "out" =>
       /\ jOut1 \o jOut2 = jDelivered
       /\ (jLast.kind = "write" /\ jLast.res = "ok" /\ jLast.acc1
             /\ Len(jLast.w1) < Len(jLast.data)) =>
             LET k == Len(jLast.w1)
                 n == Len(jLast.data)
             IN  /\ jLast.w1 = SubSeq(jLast.data, 1, k)
                 /\ jLast.acc2
                 /\ jLast.off2 = SubSeq(jLast.data, k + 1, n)
                 /\ jLast.w2 = SubSeq(jLast.data, k + 1, k + Len(jLast.w2))
                 /\ jLast.r = k + Len(jLast.w2)
                 /\ jOut1 = jLast.entry.out1 \o jLast.w1
                 /\ jOut2 = jLast.entry.out2 \o jLast.w2

\* one Write split over both streams, with bytes that tell the halves apart
C4_Witness ==
    /\ jDir = "out"
    /\ jLast.kind = "write" /\ jLast.res = "ok" /\ jLast.acc1
    /\ Len(jLast.w1) > 0 /\ Len(jLast.w1) < Len(jLast.data)
    /\ Len(jLast.w2) > 0
    /\ jLast.w1 # jLast.w2
    /\ jLast.r = Len(jLast.w1) + Len(jLast.w2)

(***************************************************************************)
(* Claims about Session::Resolve (checked under SpecResolve).              *)
(***************************************************************************)
Sl == <<"/">>
Dot == <<".">>
DotDot == <<".", ".">>

\* the device operations of one failed or successful child lookup in `parent`
\* that queried the first k handles of the listing
LookupLog(parent, k) ==
    <<<<"GetObjectHandles", parent>>>> \o
    [i \in 1..k |-> <<"GetObjectStringProperty", GetObjectHandles(sCs, parent)[i]>>]

\* C5: Resolve("/") is Root with no device operation; empty and "."
\* components change nothing: a/./b, a//b and a/b/ resolve like a/b (same
\* object or same failure) from every current directory on every tree; a
\* path starting with "/" resolves as from Root, any other from _cd.
\* (What Resolve returns depends on the device and _cd only, so the results
\* are compared in the states where the session waits for a command.)
C5_EmptyAndDotAreNoOps ==
    /\ Resolve(sCd, Sl) = [kind |-> "ok", id |-> Root, log |-> << >>]
    /\ \A a \in IF sPc = "idle" THEN Names ELSE {}, b \in Names :
          LET ab == Outcome(Resolve(sCd, a \o Sl \o b))
          IN  /\ Outcome(Resolve(sCd, a \o Sl \o Dot \o Sl \o b)) = ab
              /\ Outcome(Resolve(sCd, a \o Sl \o Sl \o b)) = ab
              /\ Outcome(Resolve(sCd, a \o Sl \o b \o Sl)) = ab
              /\ Outcome(Resolve(sCd, Sl \o a \o Sl \o b)) = Outcome(Resolve(Root, a \o Sl \o b))
    /\ (rCall.cmd # "none" /\ rCall.log # << >>) =>
          rCall.log[1][2] = IF rCall.path[1] = "/" THEN Root ELSE rCall.cd

\* "a/./A" was resolved to an object from a current directory on the device
C5_Witness ==
    /\ rCall.cmd = "resolve"
    /\ rCall.path = <<"a", "/", ".", "/", "A">>
    /\ rCall.cd \in Handles
    /\ rCall.out.kind = "ok"
    /\ rCall.out.id \in Handles

\* C6: when a is a child of the current directory, a/../b resolves like b
\* (same object or same failure); after a ".." step Resolve neither queries
\* the device about the Device sentinel nor returns it.
C6_DotDotUndoesChild ==
    /\ \A a \in IF sPc = "idle" THEN Names ELSE {}, b \in Names :
          Resolve(sCd, a).kind = "ok" =>
             Outcome(Resolve(sCd, a \o Sl \o DotDot \o Sl \o b)) = Outcome(Resolve(sCd, b))
    /\ rCall.cmd # "none" =>
          /\ \A i \in 1..Len(rCall.log) : rCall.log[i][2] # Device
          /\ rCall.out.kind = "ok" => rCall.out.id # Device
    /\ sCd # Device

\* "a/../A" was resolved from Root: the parent of a is reported as Device
C6_Witness ==
    /\ rCall.cmd = "resolve"
    /\ rCall.path = <<"a", "/", ".", ".", "/", "A">>
    /\ rCall.cd = Root
    /\ rCall.out.kind = "ok"
    /\ \E i \in 1..Len(rCall.log) :
          /\ rCall.log[i][1] = "GetObjectParent"
          /\ dParent[rCall.log[i][2]] = Device

\* C7: ResolveObjectChild returns the first handle of the listing whose
\* filename is exactly the name, queries no handle after it, and fails when
\* no filename is exactly the name (a name differing in case does not match).
C7_FirstExactMatchWins ==
    \A parent \in {Root} \cup Handles, name \in IF sPc = "idle" THEN Names ELSE {} :
       LET list    == GetObjectHandles(sCs, parent)
           r       == ResolveObjectChild(parent, name, << >>)
           matches == {i \in 1..Len(list) : dName[list[i]] = name}
       IN  IF matches = {}
           THEN /\ r.kind = "error"
                /\ r.log = LookupLog(parent, Len(list))
           ELSE LET k == CHOOSE i \in matches : \A j \in matches : i <= j
                IN  /\ r.kind = "ok"
                    /\ r.id = list[k]
                    /\ r.log = LookupLog(parent, k)

\* "a" was looked up where the listing is "A", "a", "a": the second handle is
\* returned and the third is not queried
C7_Witness ==
    /\ rCall.cmd = "resolve"
    /\ rCall.path = <<"a">>
    /\ rCall.cd = Root
    /\ GetObjectHandles(sCs, Root) = <<1, 2, 3>>
    /\ dName = <<<<"A">>, <<"a">>, <<"a">>>>
    /\ rCall.out = [kind |-> "ok", id |-> 2]
    /\ Len(rCall.log) = 3

\* C8: when a component (not empty, ".", "..") of the path names no child of
\* the directory the components before it resolve to, Resolve fails with the
\* error carrying that component, its device operations end with the
\* listing and name queries of that directory, and _cd and _cs are unchanged.
C8_MissingComponentFails ==
    rCall.cmd # "none" =>
       \A i \in 0..Len(rCall.path), j \in 0..Len(rCall.path) :
          LET path   == rCall.path
              entity == SubSeq(path, i + 1, j)
              pre    == Resolve(rCall.cd, SubSeq(path, 1, i))
          IN  ( /\ i < j
                /\ i = 0 \/ path[i] = "/"
                /\ j = Len(path) \/ path[j + 1] = "/"
                /\ \A k \in 1..Len(entity) : entity[k] # "/"
                /\ entity \notin {Dot, DotDot}
                /\ pre.kind = "ok"
                /\ \A h \in Handles :
                      (\E k \in 1..Len(GetObjectHandles(sCs, pre.id)) :
                          GetObjectHandles(sCs, pre.id)[k] = h) => dName[h] # entity )
              => /\ rCall.out = [kind |-> "error", what |-> <<"could not find">> \o entity]
                 /\ rCall.log = pre.log \o
                       LookupLog(pre.id, Len(GetObjectHandles(sCs, pre.id)))
                 /\ sCd = rCall.cd
                 /\ sCs = rCall.cs

\* cd a/A from a directory on the device that holds children but no "a"
C8_Witness ==
    /\ rCall.cmd = "cd"
    /\ rCall.path = <<"a", "/", "A">>
    /\ rCall.cd \in Handles
    /\ rCall.out = [kind |-> "error", what |-> <<"could not find", "a">>]
    /\ Len(rCall.log) = 2
    /\ \E h \in Handles : dName[h] = <<"a">>
    /\ sCd = rCall.cd

(***************************************************************************)
(* Claims about recursive put and get (checked under SpecTransfer).        *)
(***************************************************************************)

\* C9: when CreateDirectory fails because the parent already holds an object
\* of that name, MakeOrResolveDirectory returns that existing child, the one
\* whose filename is the last component of the destination, for every source
\* directory, nested ones included.
C9_ExistingDirectoryIsReused ==
    (tDir.kind # "none" /\ tDir.exists) =>
       /\ tDir.kind = "reused"
       /\ tDir.id \in Handles
       /\ dName[tDir.id] = GetFilename(tDir.dst)
       /\ \E k \in 1..Len(GetObjectHandles(sCs, tDir.parent)) :
             GetObjectHandles(sCs, tDir.parent)[k] = tDir.id

\* C10 as claimed: a failure that concerns one file (stat, open,
\* SendObjectInfo, SendObject, GetObjectInfo, GetObject; not session-fatal)
\* does not end the transfer while entries remain to be attempted.
C10_PerFileFailureContinues ==
    ( /\ tPhase \in {"done", "failed"}
      /\ tErr.kind = "perfile"
      /\ tErr.op \in {"stat", "open", "SendObjectInfo", "SendObject",
                      "GetObjectInfo", "GetObject"} )
    => \A i \in 1..Len(tErr.dropped) : tErr.dropped[i].rest = << >>

\* C10 as amended: Put and Get have no handler, so the first failure of any
\* operation (session-fatal or not) ends the whole command at once: every
\* directory loop is left and no further entry is attempted.  (A failed
\* opendir is no such failure: it is reported and only that directory is
\* skipped.)
C10_AnyFailureEndsTransfer ==
    tErr.kind # "none" =>
       /\ tPhase = "failed"
       /\ tStack = << >>
       /\ Len(tAttempted) = tErr.attempts

\* a put ended by a failed SendObjectInfo of one file while its directory
\* still had an entry to read
C10_Witness ==
    /\ tCmd = "put"
    /\ tPhase = "failed"
    /\ tErr.kind = "perfile"
    /\ tErr.op = "SendObjectInfo"
    /\ \E i \in 1..Len(tErr.dropped) : tErr.dropped[i].rest # << >>
    /\ tStack = << >>

\* the positions of the log holding the operation `op`
LogAt(op) == {i \in 1..Len(tLog) : tLog[i][1] = op}

\* C11: a Put of a regular file whose input stream was opened issues
\* SendObjectInfo (filename = last component of the destination, parent = the
\* given parent, declared size = the stream's size) and directly after it one
\* SendObject of that stream; when SendObjectInfo fails the call issues no
\* SendObject.  Over the whole command every SendObject directly follows the
\* SendObjectInfo of its file and no file is sent twice.
C11_InfoThenData ==
    /\ tFile.kind = "file" =>
          LET info == <<"SendObjectInfo", GetFilename(tFile.dst), tFile.parent,
                        "Undefined", lFs[tFile.src].size>>
              data == <<"SendObject", tFile.src, lFs[tFile.src].size>>
              ops  == SubSeq(tLog, tFile.from + 1, Len(tLog))
          IN  IF tErr.kind # "none" /\ tErr.op = "SendObjectInfo"
              THEN ops = <<info>>
              ELSE /\ Len(ops) >= 2
                   /\ SubSeq(ops, 1, 2) = <<info, data>>
                   /\ \A i \in 3..Len(ops) :
                         ops[i][1] = "SendObject" => ops[i][2] # tFile.src
    /\ \A i \in LogAt("SendObject") :
          /\ i > 1
          /\ tLog[i - 1][1] = "SendObjectInfo"
          /\ tLog[i - 1][4] = "Undefined"
          /\ tLog[i - 1][2] = GetFilename(tLog[i][2])
          /\ \A j \in LogAt("SendObject") : tLog[j][2] = tLog[i][2] => j = i
    /\ \A i \in LogAt("SendObjectInfo") :
          tLog[i][4] = "Undefined" =>
             \/ i < Len(tLog) /\ tLog[i + 1][1] = "SendObject"
             \/ i = Len(tLog) /\ tErr.kind # "none" /\ tErr.op = "SendObjectInfo"

\* put d completed: d/s/g and d/f were sent, each to the directory made for
\* its own parent, with its own size
C11_Witness ==
    /\ tCmd = "put"
    /\ tPhase = "done"
    /\ tFile.kind = "file"
    /\ tFile.parent \in Handles
    /\ Cardinality(LogAt("SendObject")) = 2
    /\ \E i \in LogAt("SendObjectInfo"), j \in LogAt("SendObjectInfo") :
          /\ tLog[i][4] = "Undefined" /\ tLog[j][4] = "Undefined"
          /\ tLog[i][3] # tLog[j][3]
          /\ tLog[i][5] # tLog[j][5]

(***************************************************************************)
(* Claims about test-property-list (checked under SpecPropList).           *)
(***************************************************************************)
\* the positions of the last reply whose property code is the requested one
\* (every position when the request was for All)
Matching ==
    {i \in 1..Len(pLast.entries) :
        pLast.property = All \/ pLast.entries[i][2] = pLast.property}
Mismatching == (1..Len(pLast.entries)) \ Matching

\* C12 as claimed: an entry whose property code differs from the requested
\* property X (X not All) is flagged and its object is still recorded in the
\* set of objects seen; every other entry is recorded.
C12_MismatchStillRecorded ==
    pLast.kind = "list" =>
       /\ \A i \in Mismatching :
             /\ \E k \in 1..Len(pLast.extra) :
                   pLast.extra[k] = <<pLast.entries[i][2], pLast.entries[i][1]>>
             /\ pLast.entries[i][1] \in pLast.objectList
       /\ \A i \in Matching : pLast.entries[i][1] \in pLast.objectList

\* C12 as amended: an entry whose property code differs from the requested
\* property X (X not All) is reported as an extra property and makes the
\* check of X report FAILED, and it does not record its object: the set of
\* objects seen holds exactly the objects of the entries whose code is X.
\* When X is All every entry is accepted and recorded and none is reported.
C12_OnlyMatchingRecorded ==
    pLast.kind = "list" =>
       /\ pLast.objectList = {pLast.entries[i][1] : i \in Matching}
       /\ Len(pLast.extra) = Cardinality(Mismatching)
       /\ \A i \in Mismatching :
             \E k \in 1..Len(pLast.extra) :
                pLast.extra[k] = <<pLast.entries[i][2], pLast.entries[i][1]>>
       /\ Mismatching # {} => pLast.verdict = "FAILED"
       /\ pLast.property = All =>
             /\ Mismatching = {}
             /\ pLast.extra = << >>

\* a reply to the ObjectFilename request with an ObjectFilename entry of one
\* child and an ObjectSize entry of another: only the first is recorded
C12_Witness ==
    /\ pLast.kind = "list"
    /\ pLast.property = "ObjectFilename"
    /\ Len(pLast.entries) = 2
    /\ pLast.entries[1][2] = "ObjectFilename"
    /\ pLast.entries[2][2] = "ObjectSize"
    /\ pLast.entries[1][1] # pLast.entries[2][1]
    /\ {pLast.entries[1][1], pLast.entries[2][1]} \subseteq pOriginal
    /\ pLast.objectList = {pLast.entries[1][1]}
    /\ pLast.verdict = "FAILED"

\* the object ids the last reply carries
Carried == {pLast.entries[i][1] : i \in 1..Len(pLast.entries)}

\* C13: the check of a property reports PASSED only if the object ids the
\* property list carries are exactly the handles GetObjectHandles returned
\* for the parent: an object that is no handle, and equally a handle the
\* list does not carry, make it report FAILED.
C13_PassedOnlyIfExact ==
    (pLast.kind = "list" /\ pLast.verdict = "PASSED") => Carried = pOriginal

(***************************************************************************)
(* Claims about the command loop (checked under SpecInput).                *)
(***************************************************************************)
\* what the last round wrote with error(...)
Said == SubSeq(iErr, Len(iLast.entry.err) + 1, Len(iErr))

\* C14: a command that fails is reported ("error: " and the exception's
\* text), and when the failure is the device response InvalidStorageID, and
\* only then, the hint about a locked or charging device follows; no failure
\* ends the loop: it goes on with the lines after the failed one and
\* _running unchanged.  The loop is over only at the end of the input or
\* after a command that returned with _running cleared.
C14_FailureKeepsLoop ==
    /\ (iLast.kind = "round" /\ iLast.res.kind # "ok") =>
          /\ iPc = "loop"
          /\ iInput = Tail(iLast.entry.input)
          /\ iRunning = iLast.entry.running
          /\ iErr = iLast.entry.err \o Said
          /\ Said = IF iLast.res.kind = "InvalidResponse"
                       /\ iLast.res.what = "InvalidStorageID"
                    THEN <<<<"error: ", "InvalidStorageID">>, Hint>>
                    ELSE <<<<"error: ", iLast.res.what>>>>
    /\ (iLast.kind = "round" /\ iLast.res.kind = "ok") => Said = << >>
    /\ iPc = "returned" =>
          \/ iLast.kind = "eof" /\ iInput = << >> /\ iRunning
          \/ iLast.kind = "round" /\ iLast.res.kind = "ok" /\ ~iRunning
    /\ iPc = "loop" => iRunning

\* a command failed with InvalidStorageID, the hint was written, and the
\* line after it was read and processed
C14_Witness ==
    /\ iLast.kind = "round"
    /\ iLast.input = "ls"
    /\ iLast.res.kind = "ok"
    /\ iLast.entry.err = <<<<"error: ", "InvalidStorageID">>, Hint>>
    /\ iPc = "loop"
    /\ iInput # << >>

(***************************************************************************)
(* The switch between the two joined streams (checked under SpecJoined).   *)
(***************************************************************************)
\* stream 1 moved fewer bytes than the last call asked it to
Stream1Short ==
    IF jLast.kind = "read" THEN jLast.n1 < jLast.req1
    ELSE Len(jLast.w1) < Len(jLast.data)

\* C15: in both directions _stream1Exhausted is false until the first call
\* in which stream 1 moves fewer bytes than requested, is set in that call
\* and stays set; OnStream1Exhausted has been invoked once when the flag is
\* set and never otherwise, in that call after the access to stream 1 and
\* before the access to stream 2; a call entered with the flag clear touches
\* stream 2 only after setting it, and a call entered with the flag set
\* touches stream 2 only.
C15_SwitchOnceAtShort ==
    /\ jHooks = IF jExhausted THEN 1 ELSE 0
    /\ jLast.kind = "none" => ~jExhausted
    /\ ~jExhausted => jPos2 = 0 /\ jOut2 = << >>
    /\ jLast.kind # "none" =>
          /\ jLast.entry.ex => jExhausted
          /\ jLast.res = "Cancelled" => jExhausted = jLast.entry.ex
          /\ jLast.res = "ok" =>
                IF jLast.entry.ex
                THEN /\ jLast.ops = <<"stream2">>
                     /\ jPos1 = jLast.entry.pos1
                     /\ jOut1 = jLast.entry.out1
                     /\ jHooks = jLast.entry.hooks
                ELSE /\ jExhausted = Stream1Short
                     /\ jLast.ops = IF Stream1Short
                                    THEN <<"stream1", "flag", "hook", "stream2">>
                                    ELSE <<"stream1">>
                     /\ ~Stream1Short =>
                           /\ jPos2 = jLast.entry.pos2
                           /\ jOut2 = jLast.entry.out2

\* a Write entered after the switch: stream 1 had taken bytes, the hook had
\* run once, and the call's bytes went to stream 2 only
C15_Witness ==
    /\ jLast.kind = "write" /\ jLast.res = "ok"
    /\ jLast.entry.ex
    /\ jLast.entry.hooks = 1
    /\ jLast.entry.out1 # << >>
    /\ jLast.entry.out2 # << >>
    /\ Len(jLast.w2) > 0
    /\ jOut1 = jLast.entry.out1
    /\ jHooks = 1

=============================================================================
